---- MODULE Spec2Model ----
(***************************************************************************)
(* The asynchronous scan job pipeline of the accessibility scanner:       *)
(* the BullMQ queue 'accessibility-scan' (scanQueue.ts), the worker that   *)
(* executes scan jobs (worker-improved.ts: processScanJob,                 *)
(* processScansWithTimeout, createTimeoutPromise, loadOpenAI) and the      *)
(* status endpoint (pages/api/scan/status.ts, getJob).                     *)
(*                                                                         *)
(* One pipeline execution exists per (job, attempt).  JavaScript runs each *)
(* stretch of code between two awaits without interruption, so every       *)
(* action below is one such stretch: it starts when the awaited promise    *)
(* (a progress write, the fetch, the detector run, the suggester call)     *)
(* settles and runs up to the next await.                                  *)
(***************************************************************************)
EXTENDS Integers, Sequences, FiniteSets, TLC

\* ------------------------------------------------------------------ sizes
\* The ids of the jobs that clients may submit (job.id is a string), in the
\* order in which the queue hands them out.
JobOrder == <<"1", "2", "3", "4">>
JobIds == {JobOrder[i] : i \in 1..Len(JobOrder)}

\* scanQueue defaultJobOptions.attempts
MaxAttempts == 3

\* Worker option concurrency of the improved worker.
Concurrency == 2

\* Worker option concurrency of the original worker.
OriginalConcurrency == 3

\* createTimeoutPromise(jobTimeout, ...) with jobTimeout = 120000
JobTimeoutMs == 120000

\* How many attempts, over one behaviour, may still be running when their
\* 120 s timer expires.
MaxOverruns == 1

Attempts == 1..MaxAttempts
Slots == 1..Concurrency
\* A free slot.
NoJob == "free"

\* ------------------------------------------------------------- job states
Terminal == {"completed", "failed"}
NonTerminal == {"waiting", "active", "delayed"}

\* ------------------------------------------------- the simulated environment
\* The value of global.window / global.document before any job ran.
OrigGlobal == <<"", 0>>
\* The JSDOM window (and its document) created by attempt a of job j.
DomOf(j, a) == <<j, a>>

\* ----------------------------------------------------------- detector stub
\* Raw axe-core results: each violation has an id, an optional impact
\* ("" when axe gave none) and the list of the nodes it affects.
RawViolation(id, impact, nodes) == [id |-> id, impact |-> impact, nodes |-> nodes]
\* A list of n affected nodes.
Nodes(n) == [i \in 1..n |-> [html |-> "<div>"]]
DetectorOutputs ==
    { << >>,
      << RawViolation("color-contrast", "serious", Nodes(2)) >>,
      << RawViolation("image-alt", "", Nodes(0)), RawViolation("label", "critical", Nodes(1)) >> }

\* A plausible slip: a missing impact is passed on as it is.
FormatViolation_NoDefault(v) ==
    [id |-> v.id,
     impact |-> v.impact,
     nodes |-> Len(v.nodes)]

\* formattedViolations = results.violations.map(...): the id, the impact or
\* 'unknown', and the number of the nodes.
FormatViolation(v) ==
    [id |-> v.id,
     impact |-> IF v.impact = "" THEN "unknown" ELSE v.impact,
     nodes |-> Len(v.nodes)]
FormatViolations(raw) == [i \in 1..Len(raw) |-> FormatViolation(raw[i])]

\* formattedViolations.filter(v => v.impact === label).length
CountImpact(vs, label) == Cardinality({i \in 1..Len(vs) : vs[i].impact = label})

\* A plausible slip: the total is the sum of the four named buckets.
Summary_TotalOfKnown(vs) ==
    [total |-> CountImpact(vs, "critical") + CountImpact(vs, "serious")
                 + CountImpact(vs, "moderate") + CountImpact(vs, "minor"),
     critical |-> CountImpact(vs, "critical"),
     serious |-> CountImpact(vs, "serious"),
     moderate |-> CountImpact(vs, "moderate"),
     minor |-> CountImpact(vs, "minor")]

\* The summary object of the result.
Summary(vs) ==
    [total |-> Len(vs),
     critical |-> CountImpact(vs, "critical"),
     serious |-> CountImpact(vs, "serious"),
     moderate |-> CountImpact(vs, "moderate"),
     minor |-> CountImpact(vs, "minor")]

\* ------------------------------------------------------------- fix suggester
\* aiFixes is null or a string: << >> is null, <<s>> is the string s.
Null == << >>
SuggesterText == <<"fix text">>
\* generateFixes' own catch: the API call failed inside the adapter.
SuggesterUnable ==
    <<"Unable to generate AI-powered fixes at this time. Please check your OpenAI API configuration.">>
\* The worker's catch around loadOpenAI / generateFixesFunc.
PlaceholderServiceError ==
    <<"**AI Service Temporarily Unavailable** AI-powered fixes are temporarily unavailable due to a service error.">>
\* The stand-in generateFixes installed when the openai module fails to load.
PlaceholderLoadFailed ==
    <<"**AI Service Unavailable** AI-powered fixes are temporarily unavailable.">>
Placeholders == {PlaceholderServiceError, PlaceholderLoadFailed}

\* What the suggester step can do: answer, answer with the adapter's own
\* fallback text, throw, throw the provider's quota error, fail to load.
SuggesterOutcomes == {"text", "unable", "throws", "quota", "loadFails"}

\* ------------------------------------------------------------ error messages
\* Messages are kept as the sequence of the pieces the code concatenates.
HttpError(status) == <<"HTTP ", ToString(status), ": ", "Not Found">>
NetworkError == <<"fetch failed">>
\* AbortSignal.timeout(30000) aborting the fetch.
FetchTimeoutError == <<"The operation was aborted due to timeout">>
DetectorError == <<"axe.run failed">>
\* createTimeoutPromise: `Job ${jobId} timed out after ${ms}ms`
\* A plausible slip: the timer rejects with the same text as an aborted fetch.
JobTimeoutError_SameAsFetch(j, ms) == FetchTimeoutError

JobTimeoutError(j, ms) == <<"Job ", j, " timed out after ", ToString(ms), "ms">>
\* processScanJob's catch: `Failed to scan URL: ${error.message}`
FailedToScan(msg) == <<"Failed to scan URL: ">> \o msg
NoReason == << >>

FetchOutcomes == {"ok", "http404", "network", "timeout"}

\* ----------------------------------------------------------------- requests
\* The urls and the identities (client IPs) of the requests.
ExampleUrl == "https://example.com"
LocalIP == "127.0.0.1"
OtherIP == "192.168.1.100"
Identities == {LocalIP, OtherIP}
\* No response has been sent yet.
NoResponse == [code |-> 0, body |-> << >>]

\* ------------------------------------------------------------------- state
VARIABLES
    state,            \* BullMQ state of each job ("none": not in the queue)
    includeAIFixes,   \* job.data.includeAIFixes
    progress,         \* job.progress as stored in the queue
    attemptsStarted,  \* leases the queue has recorded for the job
    attemptsMade,     \* attempts of the job the queue has seen end
    returnvalue,      \* job.returnvalue: << >> or <<result>>
    failedReason,     \* job.failedReason: NoReason or the message
    thrown,           \* the error processScanJob threw last for the job
    delayedUntil,     \* the time (ms) up to which the queue delays the job's retry
    slot,             \* the job each execution slot of the worker holds
    pc,               \* where the pipeline of (job, attempt) is
    race,             \* Promise.race of (job, attempt): none/pending/settled
    timer,            \* the timer of createTimeoutPromise: unset/armed/fired
    originalWindow,   \* const originalWindow of (job, attempt)
    originalDocument, \* const originalDocument of (job, attempt)
    formattedViolations, \* let formattedViolations of (job, attempt)
    aiFixes,          \* let aiFixes of (job, attempt)
    suggester,        \* what the suggester did for (job, attempt)
    globalWindow,     \* global.window of the worker process
    globalDocument,   \* global.document of the worker process
    overruns,         \* attempts that outlived their timer so far
    workerUp,         \* the worker process is running: it has not called process.exit
    url,              \* job.data.url
    clientIP,         \* job.data.clientIP
    timestamp,        \* job.data.timestamp
    now,              \* the gateway's clock, in seconds
    lastAccepted,     \* per identity: << >> or <<time of the last accepted submission>>
    response,         \* the last response the gateway sent
    lookup,           \* the job object a status request in flight holds
    jobCounter,       \* retention: the id the queue gave out last
    liveIds,          \* retention: ids of the jobs that are not terminal
    completedIds,     \* retention: ids kept in the completed set, oldest first
    failedIds,        \* retention: ids kept in the failed set, oldest first
    failEvery,        \* retention: which jobs fail (every failEvery-th, 0: none)
    clientPc,         \* browser client: where scan() and its polling are
    loading,          \* browser client: the loading flag
    scanResult,       \* browser client: << >> (null) or <<the result shown>>
    clientError,      \* browser client: << >> (null) or <<the message shown>>
    scanError,        \* browser client: the scan error flag
    pollAttempts      \* browser client: let attempts of scan()

\* job.data, written by addScanJob only.
requestVars == <<includeAIFixes, url, clientIP, timestamp>>
gatewayVars == <<now, lastAccepted, response, lookup>>
retentionVars == <<jobCounter, liveIds, completedIds, failedIds, failEvery>>
clientVars == <<clientPc, loading, scanResult, clientError, scanError, pollAttempts>>
\* What stands beside the queue and the worker: the retention of ended jobs
\* and the browser client.
sideVars == <<retentionVars, clientVars>>
\* What no step of the worker changes.
frontVars == <<requestVars, gatewayVars, sideVars>>

vars == <<state, includeAIFixes, progress, attemptsStarted, attemptsMade,
          returnvalue, failedReason, thrown, delayedUntil, slot, pc, race, timer, originalWindow,
          originalDocument, formattedViolations, aiFixes, suggester,
          globalWindow, globalDocument, overruns, workerUp, url, clientIP, timestamp,
          now, lastAccepted, response, lookup, sideVars>>

\* What settling the race of an attempt may change.
outcomeVars == <<state, attemptsStarted, attemptsMade, returnvalue, failedReason, thrown,
                 delayedUntil, slot>>
queueVars == <<state, progress, attemptsStarted, attemptsMade, returnvalue, failedReason,
               thrown, delayedUntil>>
globalVars == <<globalWindow, globalDocument>>
localVars == <<originalWindow, originalDocument, formattedViolations, aiFixes, suggester>>
\* Every variable of the worker and of the queue's bookkeeping of attempts.
workerVars == <<progress, attemptsStarted, attemptsMade, returnvalue, failedReason,
                thrown, delayedUntil, slot, pc, race, timer, localVars, globalVars, overruns, workerUp>>

Init ==
    /\ state = [j \in JobIds |-> "none"]
    /\ includeAIFixes = [j \in JobIds |-> FALSE]
    /\ progress = [j \in JobIds |-> 0]
    /\ attemptsStarted = [j \in JobIds |-> 0]
    /\ attemptsMade = [j \in JobIds |-> 0]
    /\ returnvalue = [j \in JobIds |-> << >>]
    /\ failedReason = [j \in JobIds |-> NoReason]
    /\ thrown = [j \in JobIds |-> NoReason]
    /\ delayedUntil = [j \in JobIds |-> 0]
    /\ slot = [s \in Slots |-> NoJob]
    /\ pc = [j \in JobIds |-> [a \in Attempts |-> "idle"]]
    /\ race = [j \in JobIds |-> [a \in Attempts |-> "none"]]
    /\ timer = [j \in JobIds |-> [a \in Attempts |-> "unset"]]
    /\ originalWindow = [j \in JobIds |-> [a \in Attempts |-> OrigGlobal]]
    /\ originalDocument = [j \in JobIds |-> [a \in Attempts |-> OrigGlobal]]
    /\ formattedViolations = [j \in JobIds |-> [a \in Attempts |-> << >>]]
    /\ aiFixes = [j \in JobIds |-> [a \in Attempts |-> Null]]
    /\ suggester = [j \in JobIds |-> [a \in Attempts |-> "notCalled"]]
    /\ globalWindow = OrigGlobal
    /\ globalDocument = OrigGlobal
    /\ overruns = 0
    /\ workerUp = TRUE
    /\ url = [j \in JobIds |-> ""]
    /\ clientIP = [j \in JobIds |-> ""]
    /\ timestamp = [j \in JobIds |-> 0]
    /\ now = 0
    /\ lastAccepted = [ip \in Identities |-> << >>]
    /\ response = NoResponse
    /\ lookup = << >>
    /\ jobCounter = 0
    /\ liveIds = {}
    /\ completedIds = << >>
    /\ failedIds = << >>
    /\ failEvery = 0
    /\ clientPc = "idle"
    /\ loading = FALSE
    /\ scanResult = << >>
    /\ clientError = << >>
    /\ scanError = FALSE
    /\ pollAttempts = 0

\* ------------------------------------------------------------------- queue
\* interface ScanJobData
ScanJobData(u, ai, ip, ts) ==
    [url |-> u, includeAIFixes |-> ai, clientIP |-> ip, timestamp |-> ts]

\* A plausible slip: the job is added with a delay and starts out delayed.
addScanJob_Deferred(j, data) ==
    /\ state[j] = "none"
    /\ state' = [state EXCEPT ![j] = "delayed"]
    /\ includeAIFixes' = [includeAIFixes EXCEPT ![j] = data.includeAIFixes]
    /\ url' = [url EXCEPT ![j] = data.url]
    /\ clientIP' = [clientIP EXCEPT ![j] = data.clientIP]
    /\ timestamp' = [timestamp EXCEPT ![j] = data.timestamp]
    /\ UNCHANGED <<progress, attemptsStarted, attemptsMade, returnvalue,
                   failedReason, thrown, delayedUntil, slot, pc, race, timer,
                   localVars, globalVars, overruns, workerUp, sideVars>>

\* addScanJob: scanQueue.add('scan-accessibility', data, {delay: 0, priority: 1});
\* the queue stores the data under the new id j and the job waits.
addScanJob(j, data) ==
    /\ state[j] = "none"
    /\ state' = [state EXCEPT ![j] = "waiting"]
    /\ includeAIFixes' = [includeAIFixes EXCEPT ![j] = data.includeAIFixes]
    /\ url' = [url EXCEPT ![j] = data.url]
    /\ clientIP' = [clientIP EXCEPT ![j] = data.clientIP]
    /\ timestamp' = [timestamp EXCEPT ![j] = data.timestamp]
    /\ UNCHANGED <<progress, attemptsStarted, attemptsMade, returnvalue,
                   failedReason, thrown, delayedUntil, slot, pc, race, timer,
                   localVars, globalVars, overruns, workerUp, sideVars>>

\* A job that a client has had accepted: its data is put in the queue.
ClientJob(j, ai) ==
    /\ addScanJob(j, ScanJobData(ExampleUrl, ai, LocalIP, now))
    /\ UNCHANGED gatewayVars

\* A plausible slip: the end of one job takes the whole worker down, every
\* slot is given up.
ReleaseSlot_WholeWorker(j) == [s \in DOMAIN slot |-> NoJob]

\* The slot that holds job j gives it up.
ReleaseSlot(j) == [s \in DOMAIN slot |-> IF slot[s] = j THEN NoJob ELSE slot[s]]

\* A plausible slip: a job that is already active is handed out again.
CanLease_ActiveToo(s, j) ==
    /\ slot[s] = NoJob
    /\ \A t \in DOMAIN slot : t < s => slot[t] # NoJob
    /\ state[j] \in {"waiting", "active"}

\* A plausible slip: a waiting job is started whether or not the slot is free.
CanLease_AnySlot(s, j) == state[j] = "waiting"

\* The job may be leased to slot s: the worker fills its lowest free slot,
\* and the queue moves a job from wait to active in one atomic step, so only
\* a waiting job is handed out.
CanLease(s, j) ==
    /\ slot[s] = NoJob
    /\ \A t \in DOMAIN slot : t < s => slot[t] # NoJob
    /\ state[j] = "waiting"

\* A plausible slip: the retries stop one attempt early.
ShouldRetry_OneTooFew(made) == made + 2 < MaxAttempts

\* A plausible slip: the attempts option is not in effect, nothing is retried.
ShouldRetry_Never(made) == FALSE

\* The queue's decision after a failed attempt, made being the attempts that
\* ended before it: retry while the configured attempts are not used up.
ShouldRetry(made) == made + 1 < MaxAttempts

\* scanQueue defaultJobOptions.backoff: {type: 'exponential', delay: 2000}
BackoffDelayMs == 2000

RECURSIVE Pow2(_)
Pow2(n) == IF n = 0 THEN 1 ELSE 2 * Pow2(n - 1)

\* A plausible slip: the backoff is of type 'fixed', every retry waits the
\* base delay.
BackoffDelay_Fixed(made) == BackoffDelayMs

\* The exponential backoff of the queue: the delay of the retry that follows
\* the made-th attempt, 2^(made - 1) times the base delay.
BackoffDelay(made) == Pow2(made - 1) * BackoffDelayMs

\* The time of the queue's clock in milliseconds.
NowMs == now * 1000

\* The result object assembled by processScansWithTimeout.
ScanResult(vs, fixes) == [violations |-> vs, aiFixes |-> fixes, summary |-> Summary(vs)]

\* The worker hands job j to processScanJob in slot s.  processScanJob calls
\* processScansWithTimeout, which runs up to its first await (the progress
\* write of 10 is in flight), and then arms the 120 s timer and races both.
Lease(s, j) ==
    /\ workerUp
    /\ CanLease(s, j)
    /\ LET a == attemptsStarted[j] + 1 IN
        /\ attemptsStarted' = [attemptsStarted EXCEPT ![j] = a]
        /\ pc' = [pc EXCEPT ![j][a] = "p10"]
        /\ race' = [race EXCEPT ![j][a] = "pending"]
        /\ timer' = [timer EXCEPT ![j][a] = "armed"]
    /\ state' = [state EXCEPT ![j] = "active"]
    /\ slot' = [slot EXCEPT ![s] = j]
    /\ UNCHANGED <<frontVars, progress, attemptsMade, returnvalue,
                   failedReason, thrown, delayedUntil, localVars, globalVars, overruns, workerUp>>

\* The delay of a retried job has elapsed.
Promote(j) ==
    /\ state[j] = "delayed"
    /\ state' = [state EXCEPT ![j] = "waiting"]
    /\ UNCHANGED <<frontVars, progress, attemptsStarted, attemptsMade,
                   returnvalue, failedReason, thrown, delayedUntil, slot, pc, race,
                   timer, localVars, globalVars, overruns, workerUp>>

\* ------------------------------------------------- how an attempt is reported
\* processScanJob returned `result`: the queue moves the job to completed.
moveToCompleted(j, result) ==
    /\ state' = [state EXCEPT ![j] = "completed"]
    /\ returnvalue' = [returnvalue EXCEPT ![j] = <<result>>]
    /\ attemptsMade' = [attemptsMade EXCEPT ![j] = @ + 1]
    /\ slot' = ReleaseSlot(j)
    /\ UNCHANGED <<attemptsStarted, failedReason, thrown, delayedUntil>>

\* processScanJob threw err: the queue records its message and either
\* schedules the retry (delayed until the backoff of the attempts made so
\* far has elapsed) or moves the job to failed.
moveToFailed(j, err) ==
    /\ failedReason' = [failedReason EXCEPT ![j] = err]
    /\ state' = [state EXCEPT ![j] =
                    IF ShouldRetry(attemptsMade[j]) THEN "delayed" ELSE "failed"]
    /\ attemptsMade' = [attemptsMade EXCEPT ![j] = @ + 1]
    /\ delayedUntil' = IF ShouldRetry(attemptsMade[j])
                       THEN [delayedUntil EXCEPT ![j] = NowMs + BackoffDelay(attemptsMade[j] + 1)]
                       ELSE delayedUntil
    /\ slot' = ReleaseSlot(j)
    /\ UNCHANGED <<attemptsStarted, returnvalue>>

\* The catch of processScanJob: whatever the race rejected with is thrown
\* again as Error(`Failed to scan URL: ${msg}`), which fails the attempt.
processScanJobThrows(j, msg) ==
    /\ thrown' = [thrown EXCEPT ![j] = FailedToScan(msg)]
    /\ moveToFailed(j, FailedToScan(msg))

\* processScansWithTimeout has returned or thrown: its locals are gone.
DropLocals(j, a) ==
    /\ originalWindow' = [originalWindow EXCEPT ![j][a] = OrigGlobal]
    /\ originalDocument' = [originalDocument EXCEPT ![j][a] = OrigGlobal]
    /\ formattedViolations' = [formattedViolations EXCEPT ![j][a] = << >>]
    /\ aiFixes' = [aiFixes EXCEPT ![j][a] = Null]
    /\ suggester' = [suggester EXCEPT ![j][a] = "notCalled"]

\* The pipeline promise of (j, a) rejects with msg.  Promise.race settles
\* with it only if the timer has not settled the race before.
PipelineRejects(j, a, msg) ==
    /\ pc' = [pc EXCEPT ![j][a] = "done"]
    /\ DropLocals(j, a)
    /\ IF race[j][a] = "pending"
       THEN /\ race' = [race EXCEPT ![j][a] = "settled"]
            /\ processScanJobThrows(j, msg)
       ELSE UNCHANGED <<race, outcomeVars>>

\* job.updateProgress(n): the queue overwrites the stored progress of the job.
updateProgress(j, n) == progress' = [progress EXCEPT ![j] = n]

\* finally { global.window = originalWindow; global.document = originalDocument }
RestoreGlobals(j, a) ==
    /\ globalWindow' = originalWindow[j][a]
    /\ globalDocument' = originalDocument[j][a]

\* ------------------------------------------------------------ the pipeline
\* The pipeline of attempt a of job j is at position p, in a process that
\* runs: the continuation that waits there may be executed.
At(j, a, p) == workerUp /\ pc[j][a] = p

\* await job.updateProgress(10) settles; updateProgress(20) is issued.
Progress10(j, a) ==
    /\ At(j, a, "p10")
    /\ updateProgress(j, 10)
    /\ pc' = [pc EXCEPT ![j][a] = "p20"]
    /\ UNCHANGED <<outcomeVars, frontVars, race, timer, localVars,
                   globalVars, overruns, workerUp>>

\* await job.updateProgress(20) settles; the fetch is started.
Progress20(j, a) ==
    /\ At(j, a, "p20")
    /\ updateProgress(j, 20)
    /\ pc' = [pc EXCEPT ![j][a] = "fetch"]
    /\ UNCHANGED <<outcomeVars, frontVars, race, timer, localVars,
                   globalVars, overruns, workerUp>>

\* The message the fetch step throws for each outcome that is not ok.
FetchError(o) ==
    CASE o = "http404" -> HttpError(404)
      [] o = "network" -> NetworkError
      [] o = "timeout" -> FetchTimeoutError

\* await fetch(...) settles: a 2xx response (its text is read and
\* updateProgress(40) issued), a non-2xx response, a network error, or the
\* 30 s abort.
FetchDone(j, a, o) ==
    /\ At(j, a, "fetch")
    /\ IF o = "ok"
       THEN /\ pc' = [pc EXCEPT ![j][a] = "p40"]
            /\ UNCHANGED <<race, outcomeVars, localVars>>
       ELSE PipelineRejects(j, a, FetchError(o))
    /\ UNCHANGED <<frontVars, progress, timer, globalVars, overruns, workerUp>>

\* await job.updateProgress(40) settles; the JSDOM window is created, the
\* globals are saved and replaced, axe is configured, updateProgress(60) is
\* issued.
Progress40(j, a) ==
    /\ At(j, a, "p40")
    /\ updateProgress(j, 40)
    /\ originalWindow' = [originalWindow EXCEPT ![j][a] = globalWindow]
    /\ originalDocument' = [originalDocument EXCEPT ![j][a] = globalDocument]
    /\ globalWindow' = DomOf(j, a)
    /\ globalDocument' = DomOf(j, a)
    /\ pc' = [pc EXCEPT ![j][a] = "p60"]
    /\ UNCHANGED <<outcomeVars, frontVars, race, timer,
                   formattedViolations, aiFixes, suggester, overruns, workerUp>>

\* A plausible slip: the checkpoint before the detector run repeats 40.
Progress60_Reports40(j, a) ==
    /\ At(j, a, "p60")
    /\ updateProgress(j, 40)
    /\ pc' = [pc EXCEPT ![j][a] = "detect"]
    /\ UNCHANGED <<outcomeVars, frontVars, race, timer, localVars,
                   globalVars, overruns, workerUp>>

\* await job.updateProgress(60) settles; axe is evaluated in the window and
\* axe.run is started.
Progress60(j, a) ==
    /\ At(j, a, "p60")
    /\ updateProgress(j, 60)
    /\ pc' = [pc EXCEPT ![j][a] = "detect"]
    /\ UNCHANGED <<outcomeVars, frontVars, race, timer, localVars,
                   globalVars, overruns, workerUp>>

\* A plausible slip: 60 is written once the detector run has completed.
DetectDone_Reports60(j, a, raw) ==
    /\ At(j, a, "detect")
    /\ formattedViolations' = [formattedViolations EXCEPT ![j][a] = FormatViolations(raw)]
    /\ RestoreGlobals(j, a)
    /\ updateProgress(j, 60)
    /\ pc' = [pc EXCEPT ![j][a] = "p80"]
    /\ UNCHANGED <<state, attemptsStarted, attemptsMade, returnvalue, failedReason,
                   thrown, delayedUntil, frontVars, slot, race, timer, originalWindow,
                   originalDocument, aiFixes, suggester, overruns, workerUp>>

\* await axe.run(...) resolves with raw: the violations are formatted, the
\* finally block restores the globals, updateProgress(80) is issued.
DetectDone(j, a, raw) ==
    /\ At(j, a, "detect")
    /\ formattedViolations' = [formattedViolations EXCEPT ![j][a] = FormatViolations(raw)]
    /\ RestoreGlobals(j, a)
    /\ pc' = [pc EXCEPT ![j][a] = "p80"]
    /\ UNCHANGED <<queueVars, frontVars, slot, race, timer, originalWindow,
                   originalDocument, aiFixes, suggester, overruns, workerUp>>

\* await axe.run(...) rejects: the finally block restores the globals and
\* the error leaves processScansWithTimeout.
DetectThrows(j, a) ==
    /\ At(j, a, "detect")
    /\ RestoreGlobals(j, a)
    /\ PipelineRejects(j, a, DetectorError)
    /\ UNCHANGED <<frontVars, progress, timer, overruns, workerUp>>

\* axe.run(...) never settles (a page that hangs the detector).
DetectHangs(j, a) ==
    /\ At(j, a, "detect")
    /\ pc' = [pc EXCEPT ![j][a] = "hung"]
    /\ IF race[j][a] = "pending"
       THEN overruns < MaxOverruns /\ overruns' = overruns + 1
       ELSE UNCHANGED overruns
    /\ UNCHANGED <<queueVars, frontVars, slot, race, timer, localVars, globalVars, workerUp>>

\* A plausible slip: fixes are asked for whenever the job requested them.
WantsFixes_WheneverRequested(j, a) == includeAIFixes[j]

\* if (includeAIFixes && formattedViolations.length > 0)
WantsFixes(j, a) == includeAIFixes[j] /\ Len(formattedViolations[j][a]) > 0

\* await job.updateProgress(80) settles; the suggester is called when fixes
\* are wanted, otherwise aiFixes stays null and updateProgress(100) is issued.
Progress80(j, a) ==
    /\ At(j, a, "p80")
    /\ updateProgress(j, 80)
    /\ pc' = [pc EXCEPT ![j][a] = IF WantsFixes(j, a) THEN "suggest" ELSE "p100"]
    /\ UNCHANGED <<outcomeVars, frontVars, race, timer, localVars,
                   globalVars, overruns, workerUp>>

\* A plausible slip: the catch leaves aiFixes null instead of a placeholder.
FixesFor_NullOnError(o) ==
    CASE o = "text" -> SuggesterText
      [] o = "unable" -> SuggesterUnable
      [] OTHER -> Null

\* The value of aiFixes after the try/catch around loadOpenAI() and
\* generateFixesFunc(): the suggester's text; the adapter's own fallback
\* text; the catch's placeholder when the call throws (a quota error is not
\* told apart); the stand-in's text when the module failed to load.
FixesFor(o) ==
    CASE o = "text" -> SuggesterText
      [] o = "unable" -> SuggesterUnable
      [] o = "throws" -> PlaceholderServiceError
      [] o = "quota" -> PlaceholderServiceError
      [] o = "loadFails" -> PlaceholderLoadFailed

\* The suggester step settles with outcome o; updateProgress(100) is issued.
SuggestDone(j, a, o) ==
    /\ At(j, a, "suggest")
    /\ suggester' = [suggester EXCEPT ![j][a] = o]
    /\ aiFixes' = [aiFixes EXCEPT ![j][a] = FixesFor(o)]
    /\ pc' = [pc EXCEPT ![j][a] = "p100"]
    /\ UNCHANGED <<queueVars, frontVars, slot, race, timer, originalWindow,
                   originalDocument, formattedViolations, globalVars, overruns, workerUp>>

\* A plausible slip: the result is reported to the queue although the race
\* has already been settled by the timer.
Progress100_IgnoresRace(j, a) ==
    /\ At(j, a, "p100")
    /\ updateProgress(j, 100)
    /\ pc' = [pc EXCEPT ![j][a] = "done"]
    /\ DropLocals(j, a)
    /\ race' = [race EXCEPT ![j][a] = "settled"]
    /\ moveToCompleted(j, ScanResult(formattedViolations[j][a], aiFixes[j][a]))
    /\ UNCHANGED <<frontVars, timer, globalVars, overruns, workerUp>>

\* await job.updateProgress(100) settles; the result is assembled and
\* returned.  If the race is still pending processScanJob returns it.
Progress100(j, a) ==
    /\ At(j, a, "p100")
    /\ updateProgress(j, 100)
    /\ pc' = [pc EXCEPT ![j][a] = "done"]
    /\ DropLocals(j, a)
    /\ IF race[j][a] = "pending"
       THEN /\ race' = [race EXCEPT ![j][a] = "settled"]
            /\ moveToCompleted(j, ScanResult(formattedViolations[j][a], aiFixes[j][a]))
       ELSE UNCHANGED <<race, outcomeVars>>
    /\ UNCHANGED <<frontVars, timer, globalVars, overruns, workerUp>>

\* ---------------------------------------------------------- the job timeout
\* A plausible slip: the expired timer is not raced against the pipeline.
TimeoutRejects_Ignored(j, a) == UNCHANGED <<race, outcomeVars>>

\* The timer of createTimeoutPromise rejects timeoutPromise.  If the race is
\* still pending, processScanJob throws the timeout error; the pipeline
\* promise is not cancelled and keeps running.
TimeoutRejects(j, a) ==
    IF race[j][a] = "pending"
    THEN /\ race' = [race EXCEPT ![j][a] = "settled"]
         /\ processScanJobThrows(j, JobTimeoutError(j, JobTimeoutMs))
    ELSE UNCHANGED <<race, outcomeVars>>

\* A plausible slip: a race that has settled no longer observes its promises.
RaceObserves_WhilePending(j, a) == race[j][a] = "pending"

\* Promise.race([scanPromise, timeoutPromise]) observes both promises from
\* the call on, whether or not it has settled since: a rejection of either
\* is a handled one.
RaceObserves(j, a) == race[j][a] # "none"

\* process.on('unhandledRejection', ...): a rejection that nothing observes
\* ends the worker process with process.exit(1).
unhandledRejection == workerUp' = FALSE

\* The timer set by createTimeoutPromise for attempt a of job j expires.
\* A timer is never cleared, so it also expires after its attempt has ended;
\* all timers run for the same 120 s, so those of one job expire in the
\* order of its attempts.
JobTimerFires(j, a) ==
    /\ workerUp
    /\ timer[j][a] = "armed"
    /\ \A b \in Attempts : b < a => timer[j][b] # "armed"
    /\ timer' = [timer EXCEPT ![j][a] = "fired"]
    /\ IF race[j][a] = "pending" /\ pc[j][a] # "hung"
       THEN overruns < MaxOverruns /\ overruns' = overruns + 1
       ELSE UNCHANGED overruns
    /\ TimeoutRejects(j, a)
    /\ IF RaceObserves(j, a) THEN UNCHANGED workerUp ELSE unhandledRejection
    /\ UNCHANGED <<frontVars, progress, pc, localVars, globalVars>>

\* ------------------------------------------------------------ specification
\* A step of the pipeline of attempt a of job j, the fetch, the detector and
\* the suggester answering with one of F, D and S.
PipelineStep(j, a, F, D, S) ==
    \/ Progress10(j, a)
    \/ Progress20(j, a)
    \/ \E o \in F : FetchDone(j, a, o)
    \/ Progress40(j, a)
    \/ Progress60(j, a)
    \/ \E raw \in D : DetectDone(j, a, raw)
    \/ DetectThrows(j, a)
    \/ Progress80(j, a)
    \/ \E o \in S : SuggestDone(j, a, o)
    \/ Progress100(j, a)

\* What the queue and the worker do on their own, when every attempt ends
\* well inside its 120 s ceiling.
QueueStep(F, D, S) ==
    \/ \E s \in Slots, j \in JobIds : Lease(s, j)
    \/ \E j \in JobIds : Promote(j)
    \/ \E j \in JobIds, a \in Attempts : PipelineStep(j, a, F, D, S)

\* The same with the whole-job timeout: a detector run may hang, and the
\* timer of an attempt expires, before or after the attempt has ended.
WorkerStep ==
    \/ QueueStep(FetchOutcomes, DetectorOutputs, SuggesterOutcomes)
    \/ \E j \in JobIds, a \in Attempts : DetectHangs(j, a)
    \/ \E j \in JobIds, a \in Attempts : JobTimerFires(j, a)

\* One submission, every fault and the whole-job timeout.
Next ==
    \/ \E ai \in BOOLEAN : ClientJob("1", ai)
    \/ WorkerStep

Spec == Init /\ [][Next]_vars

\* The same with fewer answers of the page, the detector and the suggester
\* (every kind of ending of an attempt is kept: return, throw, hang, timer).
FairFetchOutcomes == {"ok", "timeout"}
FairDetectorOutputs == {<< RawViolation("color-contrast", "serious", Nodes(2)) >>}
FairSuggesterOutcomes == {"text", "throws"}

FairWorkerStep ==
    \/ QueueStep(FairFetchOutcomes, FairDetectorOutputs, FairSuggesterOutcomes)
    \/ \E j \in JobIds, a \in Attempts : DetectHangs(j, a)
    \/ \E j \in JobIds, a \in Attempts : JobTimerFires(j, a)

FairNext ==
    \/ \E ai \in BOOLEAN : ClientJob("1", ai)
    \/ FairWorkerStep

\* The event loop runs every continuation and timer that is ready, and the
\* queue hands out waiting jobs and promotes delayed ones.
FairSpec == Init /\ [][FairNext]_vars /\ WF_vars(FairWorkerStep)

\* Several submissions sharing the worker, no attempt reaching its timeout;
\* the pages answer 2xx or 404, the detector finds one violation or throws,
\* the suggester answers or throws.
PairFetchOutcomes == {"ok", "http404"}
PairDetectorOutputs == {<< RawViolation("color-contrast", "serious", Nodes(2)) >>}
PairSuggesterOutcomes == {"text", "throws"}

PairJobs == {"1", "2"}

PairNext ==
    \/ \E j \in PairJobs, ai \in BOOLEAN : ClientJob(j, ai)
    \/ QueueStep(PairFetchOutcomes, PairDetectorOutputs, PairSuggesterOutcomes)

PairSpec == Init /\ [][PairNext]_vars

\* The worker that is deployed is the original one, with its own concurrency
\* (both workers start a job with the same progress writes and the fetch).
DeployOriginalWorker ==
    /\ DOMAIN slot = Slots
    /\ \A j \in JobIds : state[j] = "none"
    /\ slot' = [s \in 1..OriginalConcurrency |-> NoJob]
    /\ UNCHANGED <<queueVars, pc, race, timer, localVars, globalVars, overruns, workerUp, frontVars>>

\* More jobs than slots, on either worker; every page answers 404, so every
\* job is retried until its attempts are used up.
LeaseNext ==
    \/ DeployOriginalWorker
    \/ \E j \in JobIds : ClientJob(j, TRUE)
    \/ \E s \in DOMAIN slot, j \in JobIds : Lease(s, j)
    \/ \E j \in JobIds : Promote(j)
    \/ \E j \in JobIds, a \in Attempts : Progress10(j, a)
    \/ \E j \in JobIds, a \in Attempts : Progress20(j, a)
    \/ \E j \in JobIds, a \in Attempts : FetchDone(j, a, "http404")

LeaseSpec == Init /\ [][LeaseNext]_vars

\* Detector results of every length up to MaxViolations, each violation with
\* one of axe's four impacts or with none.
MaxViolations == 3
AxeImpacts == {"critical", "serious", "moderate", "minor", ""}
RECURSIVE ViolationLists(_)
ViolationLists(n) ==
    IF n = 0 THEN { << >> }
    ELSE ViolationLists(n - 1)
           \cup { Append(vs, RawViolation("rule", i, Nodes(1))) :
                     vs \in { ws \in ViolationLists(n - 1) : Len(ws) = n - 1 },
                     i \in AxeImpacts }
ImpactOutputs == ViolationLists(MaxViolations)

\* One job on a page that loads, with every detector result above.
ImpactNext ==
    \/ \E ai \in BOOLEAN : ClientJob("1", ai)
    \/ \E s \in Slots : Lease(s, "1")
    \/ Progress10("1", 1)
    \/ Progress20("1", 1)
    \/ FetchDone("1", 1, "ok")
    \/ Progress40("1", 1)
    \/ Progress60("1", 1)
    \/ \E raw \in ImpactOutputs : DetectDone("1", 1, raw)
    \/ Progress80("1", 1)
    \/ SuggestDone("1", 1, "text")
    \/ Progress100("1", 1)

ImpactSpec == Init /\ [][ImpactNext]_vars

TypeOK ==
    /\ state \in [JobIds -> {"none"} \cup NonTerminal \cup Terminal]
    /\ progress \in [JobIds -> {0, 10, 20, 40, 60, 80, 100}]
    /\ attemptsStarted \in [JobIds -> 0..MaxAttempts]
    /\ attemptsMade \in [JobIds -> 0..MaxAttempts]
    /\ slot \in [Slots -> JobIds \cup {NoJob}]
    /\ overruns \in 0..MaxOverruns

\* ---------------------------------------------------------- status endpoint
\* A plausible slip: a state name the mapping does not know is passed on.
mapBullStateToJobStatus_PassesUnknown(bullState) == bullState

\* mapBullStateToJobStatus: the queue's state names to JobStatus values.
mapBullStateToJobStatus(bullState) ==
    CASE bullState = "waiting" -> "waiting"
      [] bullState = "delayed" -> "delayed"
      [] bullState = "active" -> "active"
      [] bullState = "completed" -> "completed"
      [] bullState = "failed" -> "failed"
      [] bullState = "paused" -> "paused"
      [] OTHER -> "waiting"

\* Job.fromId(scanQueue, jobId): << >> is null (the queue holds no such job),
\* otherwise the job object with the fields stored at the time of the read.
jobFromId(j) ==
    IF state[j] = "none"
    THEN << >>
    ELSE << [id |-> j, progress |-> progress[j], returnvalue |-> returnvalue[j],
             failedReason |-> failedReason[j]] >>

\* The details getJob returns for the job object and the state read after it.
getJobDetails(job, bullState) ==
    [id |-> job.id,
     status |-> mapBullStateToJobStatus(bullState),
     progress |-> job.progress,
     result |-> job.returnvalue,
     error |-> job.failedReason]

\* getJob(jobId) when the job does not change while it is read.
getJob(j) ==
    IF jobFromId(j) = << >>
    THEN << >>
    ELSE << getJobDetails(jobFromId(j)[1], state[j]) >>

\* getJobStatus(jobId), the other status helper, for what Job.fromId returned
\* (<< >>: null) and the state read after it.
getJobStatus(job, bullState) ==
    IF job = << >>
    THEN [status |-> "not_found", error |-> "Job not found"]
    ELSE CASE bullState = "completed" ->
                [status |-> "completed", result |-> job[1].returnvalue, progress |-> 100]
           [] bullState = "failed" ->
                [status |-> "failed", error |-> job[1].failedReason, progress |-> 0]
           [] bullState = "active" ->
                [status |-> "active", progress |-> job[1].progress]
           [] bullState = "waiting" ->
                [status |-> "waiting", progress |-> 0]
           [] bullState = "delayed" ->
                [status |-> "delayed", progress |-> 0]
           [] OTHER ->
                [status |-> "waiting", progress |-> 0]

\* A plausible slip: a failed job is answered with its stored progress.
statusResponse_StoredProgress(jobStatus) ==
    IF jobStatus = << >>
    THEN [code |-> 404, body |-> [error |-> "Job not found"]]
    ELSE IF jobStatus[1].status = "completed"
    THEN [code |-> 200,
          body |-> [status |-> jobStatus[1].status, progress |-> 100,
                    result |-> jobStatus[1].result]]
    ELSE IF jobStatus[1].status = "failed"
    THEN [code |-> 200,
          body |-> [status |-> jobStatus[1].status, progress |-> jobStatus[1].progress,
                    error |-> jobStatus[1].error]]
    ELSE [code |-> 200,
          body |-> [status |-> jobStatus[1].status, progress |-> jobStatus[1].progress]]

\* What the GET handler of /api/scan/status answers to what getJob returned.
statusResponse(jobStatus) ==
    IF jobStatus = << >>
    THEN [code |-> 404, body |-> [error |-> "Job not found"]]
    ELSE IF jobStatus[1].status = "completed"
    THEN [code |-> 200,
          body |-> [status |-> jobStatus[1].status, progress |-> 100,
                    result |-> jobStatus[1].result]]
    ELSE IF jobStatus[1].status = "failed"
    THEN [code |-> 200,
          body |-> [status |-> jobStatus[1].status, progress |-> 0,
                    error |-> jobStatus[1].error]]
    ELSE [code |-> 200,
          body |-> [status |-> jobStatus[1].status, progress |-> jobStatus[1].progress]]

\* The GET handler of /api/scan/status for a request that names job j, the
\* job not changing while the request is served.
statusHandler(j) == statusResponse(getJob(j))

\* A plausible slip: answering a status request rewrites the stored progress.
StatusRespond_WritesProgress ==
    /\ lookup # << >>
    /\ response' = statusResponse(<< getJobDetails(lookup[1], state[lookup[1].id]) >>)
    /\ lookup' = << >>
    /\ progress' = [progress EXCEPT ![lookup[1].id] = response'.body.progress]
    /\ UNCHANGED <<state, requestVars, attemptsStarted, attemptsMade, returnvalue,
                   failedReason, thrown, delayedUntil, slot, pc, race, timer, localVars, globalVars,
                   overruns, workerUp, sideVars, now, lastAccepted>>

\* GET /api/scan/status?jobId=j up to the first read of getJob: Job.fromId
\* returns the job object, or null and the handler answers 404.
StatusRead(j) ==
    /\ lookup = << >>
    /\ IF jobFromId(j) = << >>
       THEN response' = statusResponse(<< >>) /\ UNCHANGED lookup
       ELSE lookup' = jobFromId(j) /\ UNCHANGED response
    /\ UNCHANGED <<state, requestVars, workerVars, sideVars, now, lastAccepted>>

\* await job.getState() settles: getJob returns the details and the handler
\* answers with them.
StatusRespond ==
    /\ lookup # << >>
    /\ response' = statusResponse(<< getJobDetails(lookup[1], state[lookup[1].id]) >>)
    /\ lookup' = << >>
    /\ UNCHANGED <<state, requestVars, workerVars, sideVars, now, lastAccepted>>

\* The ids clients ask the status of: a job of the queue and an unknown one.
StatusIds == {"1", "2"}
StatusFetchOutcomes == {"ok", "http404"}
StatusDetectorOutputs == {<< RawViolation("color-contrast", "serious", Nodes(2)) >>}
StatusSuggesterOutcomes == {"text"}

\* One job on the worker while clients poll its status.
StatusNext ==
    \/ \E ai \in BOOLEAN : ClientJob("1", ai)
    \/ QueueStep(StatusFetchOutcomes, StatusDetectorOutputs, StatusSuggesterOutcomes)
    \/ \E j \in StatusIds : StatusRead(j)
    \/ StatusRespond

StatusSpec == Init /\ [][StatusNext]_vars

\* ------------------------------------------------------ the submit endpoint
\* The POST handler of the queued /api/scan (validation, rate limiting,
\* enqueueing) is described by the specification and exercised by
\* __tests__/api/scan.test.ts; the definitions of this section follow them.

\* The rolling window of the rate limiter, in seconds.
RateWindowSec == 60

\* The latest time shown by the gateway's clock.
MaxNow == 90

\* How far the clock moves between two requests, in seconds.
TickSeconds == {29, 30}

\* The urls of the request bodies ("": no url) and the includeAIFixes fields.
RequestUrls == {"", ExampleUrl, "invalid-url"}
AiInputs == {"true", "false", "omitted"}

\* A plausible slip: the window is half as long.
RateLimited_HalfWindow(ip) ==
    /\ lastAccepted[ip] # << >>
    /\ 2 * (now - lastAccepted[ip][1]) < RateWindowSec

\* A plausible slip: a submission exactly one window later is still refused.
RateLimited_Inclusive(ip) ==
    /\ lastAccepted[ip] # << >>
    /\ now - lastAccepted[ip][1] <= RateWindowSec

\* A plausible slip: one window is kept for all identities together.
RateLimited_Shared(ip) ==
    \E other \in Identities :
        /\ lastAccepted[other] # << >>
        /\ now - lastAccepted[other][1] < RateWindowSec

\* The identity had a submission accepted less than one window ago.
RateLimited(ip) ==
    /\ lastAccepted[ip] # << >>
    /\ now - lastAccepted[ip][1] < RateWindowSec

\* A plausible slip: fixes are included only when asked for.
IncludeAIFixesOf_DefaultFalse(aiIn) == aiIn = "true"

\* includeAIFixes of the job data: true unless the body says false.
IncludeAIFixesOf(aiIn) == aiIn # "false"

\* The id the queue gives to the next job.
HasFreeId == \E i \in 1..Len(JobOrder) : state[JobOrder[i]] = "none"
NextJobId ==
    JobOrder[CHOOSE i \in 1..Len(JobOrder) :
                /\ state[JobOrder[i]] = "none"
                /\ \A k \in 1..(i - 1) : state[JobOrder[k]] # "none"]

\* The bodies of the responses.
StatusUrl(j) == <<"/api/scan/status?jobId=", j>>
Accepted(j, u) ==
    [code |-> 202,
     body |-> [message |-> "Scan job started successfully", jobId |-> j,
               statusUrl |-> StatusUrl(j), url |-> u]]
MissingUrl == [code |-> 400, body |-> [error |-> "Missing URL in request body"]]
TooManyRequests ==
    [code |-> 429, body |-> [error |-> "Too many scan requests - please wait a minute."]]

\* A plausible slip: a url that is no absolute https url is refused as well.
UrlMissing_RequiresScheme(u) == u # ExampleUrl

\* if (!url): the body carries no url.
UrlMissing(u) == u = ""

\* POST /api/scan from identity ip with body {url: u, includeAIFixes: aiIn}.
scanHandler(ip, u, aiIn) ==
    IF UrlMissing(u)
    THEN /\ response' = MissingUrl
         /\ UNCHANGED <<state, requestVars, workerVars, sideVars, now, lastAccepted, lookup>>
    ELSE IF RateLimited(ip)
    THEN /\ response' = TooManyRequests
         /\ UNCHANGED <<state, requestVars, workerVars, sideVars, now, lastAccepted, lookup>>
    ELSE /\ HasFreeId
         /\ addScanJob(NextJobId, ScanJobData(u, IncludeAIFixesOf(aiIn), ip, now))
         /\ lastAccepted' = [lastAccepted EXCEPT ![ip] = <<now>>]
         /\ response' = Accepted(NextJobId, u)
         /\ UNCHANGED <<now, lookup>>

\* Time passes between two requests.
Tick(d) ==
    /\ now + d <= MaxNow
    /\ now' = now + d
    /\ UNCHANGED <<state, requestVars, workerVars, sideVars, lastAccepted, response, lookup>>

GateNext ==
    \/ \E d \in TickSeconds : Tick(d)
    \/ \E ip \in Identities, u \in RequestUrls, aiIn \in AiInputs : scanHandler(ip, u, aiIn)

\* The gateway alone: submissions from two identities as time passes.
GateSpec == Init /\ [][GateNext]_vars

\* ------------------------------------------ status requests as they arrive
\* The methods of the requests, and their jobId query parameters: << >> when
\* the parameter is missing, <<id>> for a single string, a longer sequence
\* when the parameter is repeated (an array).
Methods == {"GET", "POST"}
JobIdQueries == {<< >>, <<"">>, <<"1">>, <<"3">>, <<"1", "3">>}

MethodNotAllowed == [code |-> 405, body |-> [error |-> "Method not allowed"]]
JobIdRequired == [code |-> 400, body |-> [error |-> "Job ID is required"]]

\* A plausible slip: of a repeated parameter the first value is used.
JobIdInvalid_FirstOfArray(q) == q = << >> \/ q[1] = ""

\* if (!jobId || typeof jobId !== 'string')
JobIdInvalid(q) == Len(q) # 1 \/ q[1] = ""

\* A request to /api/scan/status with method m and jobId query q, up to its
\* answer or to the first read of getJob.
StatusRequest(m, q) ==
    /\ lookup = << >>
    /\ IF m # "GET"
       THEN /\ response' = MethodNotAllowed
            /\ UNCHANGED <<state, requestVars, workerVars, sideVars, now,
                           lastAccepted, lookup>>
       ELSE IF JobIdInvalid(q)
       THEN /\ response' = JobIdRequired
            /\ UNCHANGED <<state, requestVars, workerVars, sideVars, now,
                           lastAccepted, lookup>>
       ELSE StatusRead(q[1])

\* One job on the worker while requests of every shape arrive.
RequestNext ==
    \/ \E ai \in BOOLEAN : ClientJob("1", ai)
    \/ QueueStep(StatusFetchOutcomes, StatusDetectorOutputs, StatusSuggesterOutcomes)
    \/ \E m \in Methods, q \in JobIdQueries : StatusRequest(m, q)
    \/ StatusRespond

RequestSpec == Init /\ [][RequestNext]_vars

\* ------------------------------------------------- the store failing to read
\* The message of the error the store client throws.
StoreError == <<"Redis connection failed">>

\* getJob's catch: the error is logged and null is returned.
getJobOnError(msg) == << >>

\* Job.fromId rejects (the connection to the store is lost): getJob returns
\* what its catch returns and the handler answers.
StatusReadFails(j) ==
    /\ lookup = << >>
    /\ response' = statusResponse(getJobOnError(StoreError))
    /\ UNCHANGED <<state, requestVars, workerVars, sideVars, now, lastAccepted, lookup>>

\* job.getState() rejects after the job object was read.
StatusStateReadFails ==
    /\ lookup # << >>
    /\ response' = statusResponse(getJobOnError(StoreError))
    /\ lookup' = << >>
    /\ UNCHANGED <<state, requestVars, workerVars, sideVars, now, lastAccepted>>

\* One job on the worker while clients poll, the store failing at times.
StoreNext ==
    \/ StatusNext
    \/ \E j \in StatusIds : StatusReadFails(j)
    \/ StatusStateReadFails

StoreSpec == Init /\ [][StoreNext]_vars

\* The message of the error addScanJob rejects with when the store is down.
EnqueueError == <<"Redis connection failed">>

\* A plausible slip: the failure is reported with the scanner's own error text.
FailedToStart_AsScanError(u, msg) ==
    [code |-> 500, body |-> [error |-> "Failed to scan URL", details |-> msg, url |-> u]]

\* The body of the response to a submission whose enqueueing failed.
FailedToStart(u, msg) ==
    [code |-> 500, body |-> [error |-> "Failed to start scan job", details |-> msg, url |-> u]]

\* POST /api/scan from identity ip with a url, admitted by the rate limiter,
\* when addScanJob rejects: nothing is added to the queue.
scanHandlerEnqueueFails(ip, u, aiIn) ==
    /\ ~UrlMissing(u)
    /\ ~RateLimited(ip)
    /\ response' = FailedToStart(u, EnqueueError)
    /\ UNCHANGED <<state, requestVars, workerVars, sideVars, now, lastAccepted, lookup>>

\* The gateway with a store that may refuse a job.
EnqueueNext ==
    \/ GateNext
    \/ \E ip \in Identities, u \in RequestUrls, aiIn \in AiInputs :
          scanHandlerEnqueueFails(ip, u, aiIn)

EnqueueSpec == Init /\ [][EnqueueNext]_vars

\* ------------------------------------------------------ retries and the clock
\* The queue promotes a delayed job once its clock has reached the time the
\* job is delayed until.  (Promote alone is this step in the specifications
\* in which no time passes.)
PromoteDue(j) ==
    /\ NowMs >= delayedUntil[j]
    /\ Promote(j)

\* How far the clock moves in one step of the retry model, in seconds, and
\* the latest time its clock shows.
BackoffTicks == {1, 3}
MaxRetryClock == 12

\* Time passes while the job is worked on or delayed.
Elapse(d) ==
    /\ now + d <= MaxRetryClock
    /\ Tick(d)

\* One job whose page answers 404 at every attempt, while time passes.
BackoffNext ==
    \/ \E ai \in BOOLEAN : ClientJob("1", ai)
    \/ \E d \in BackoffTicks : Elapse(d)
    \/ \E s \in Slots : Lease(s, "1")
    \/ PromoteDue("1")
    \/ \E a \in Attempts : Progress10("1", a)
    \/ \E a \in Attempts : Progress20("1", a)
    \/ \E a \in Attempts : FetchDone("1", a, "http404")

BackoffSpec == Init /\ [][BackoffNext]_vars

\* ------------------------------------------- the names the queue gives a state
\* The names job.getState() may give for a job that waits, besides 'waiting':
\* 'paused' while the queue is paused, 'prioritized' for a job added with a
\* priority (addScanJob adds every job with priority 1).
HeldStateNames == {"paused", "prioritized"}

\* await job.getState() settles with one of these names for a job that
\* waits: getJob maps the name and the handler answers.
StatusRespondHeld(bullState) ==
    /\ lookup # << >>
    /\ state[lookup[1].id] = "waiting"
    /\ response' = statusResponse(<< getJobDetails(lookup[1], bullState) >>)
    /\ lookup' = << >>
    /\ UNCHANGED <<state, requestVars, workerVars, sideVars, now, lastAccepted>>

\* One job on the worker while clients poll, the queue naming the state of a
\* waiting job in each of its ways.
HeldNext ==
    \/ StatusNext
    \/ \E bullState \in HeldStateNames : StatusRespondHeld(bullState)

HeldSpec == Init /\ [][HeldNext]_vars

\* --------------------------------------------------- detector results at large
\* Detector results of every length up to MaxListLen, each violation with one
\* of two rule ids, with an impact or none, and with 0 to MaxNodes nodes.
MaxListLen == 2
MaxNodes == 2
RuleIds == {"color-contrast", "image-alt"}
RawViolations ==
    { RawViolation(id, impact, Nodes(n)) :
          id \in RuleIds, impact \in {"serious", ""}, n \in 0..MaxNodes }
RawLists == UNION { [1..n -> RawViolations] : n \in 0..MaxListLen }

\* One job on a page that loads, with every detector result above.
NormalizeNext ==
    \/ ClientJob("1", FALSE)
    \/ \E s \in Slots : Lease(s, "1")
    \/ Progress10("1", 1)
    \/ Progress20("1", 1)
    \/ FetchDone("1", 1, "ok")
    \/ Progress40("1", 1)
    \/ Progress60("1", 1)
    \/ \E raw \in RawLists : DetectDone("1", 1, raw)
    \/ Progress80("1", 1)
    \/ Progress100("1", 1)

NormalizeSpec == Init /\ [][NormalizeNext]_vars

\* --------------------------------------------------------- the browser client
\* scan() of the page: const maxAttempts = 60 (polls, one every 2 s).
MaxPolls == 60

\* The urls typed into the page ("": none), and the validity the page has
\* computed for them.
TypedUrls == {"", "not a url", "example.com"}
isUrlValid(u) == u = "example.com"

\* The messages the client shows.
EnterUrlMessage == <<"Please enter a URL">>
InvalidUrlMessage == <<"Please enter a valid URL (e.g., https://example.com)">>
PollTimedOutMessage == <<"Scan job timed out after 2 minutes">>
NoViolationsMessage == <<"Great! No accessibility violations found on this page.">>

\* The answers of POST /api/scan: the job is accepted, or the request is
\* refused by the rate limiter.
PostAnswers == {Accepted("1", "https://example.com"), TooManyRequests}

\* The answers of GET /api/scan/status to one poll: the job in each of its
\* states (completed with and without violations), and 404.
PolledJob(status, p, result, err) ==
    [id |-> "1", status |-> status, progress |-> p, result |-> result, error |-> err]
PollAnswers ==
    { statusResponse(<< >>) } \cup
    { statusResponse(<< d >>) :
        d \in { PolledJob("waiting", 0, << >>, NoReason),
                PolledJob("active", 40, << >>, NoReason),
                PolledJob("delayed", 20, << >>, FailedToScan(HttpError(404))),
                PolledJob("completed", 100, << ScanResult(<< >>, Null) >>, NoReason),
                PolledJob("completed", 100,
                          << ScanResult(FormatViolations(
                                 << RawViolation("color-contrast", "serious", Nodes(2)) >>),
                                 Null) >>, NoReason),
                PolledJob("failed", 20, << >>, FailedToScan(HttpError(404))) } }

\* scan() is still waiting for the promise of pollStatus(): it awaits the
\* first call only; the later calls are made by setTimeout and nobody waits
\* for their promises.
Awaited == pollAttempts <= 1

\* An error is thrown in scan() or in pollStatus(): the catch of scan() sets
\* the error state and its finally clears the loading flag, if scan() still
\* waits; otherwise the rejection is lost.
Thrown(msg) ==
    IF Awaited
    THEN /\ scanError' = TRUE
         /\ clientError' = << msg >>
         /\ loading' = FALSE
    ELSE UNCHANGED <<scanError, clientError, loading>>

\* pollStatus() returns without an error: scan(), if it still waits, goes on
\* to its finally and clears the loading flag.
Returned == loading' = IF Awaited THEN FALSE ELSE loading

\* scan() up to its first await: the url is checked, the state of the last
\* scan is cleared, the loading flag is set and the POST is sent.  One scan
\* at a time: the next one starts when the polling of the last has ended.
scan(u) ==
    /\ clientPc \in {"idle", "ended"}
    /\ IF u = "" \/ ~isUrlValid(u)
       THEN /\ clientError' = << IF u = "" THEN EnterUrlMessage ELSE InvalidUrlMessage >>
            /\ UNCHANGED <<clientPc, loading, scanResult, scanError, pollAttempts>>
       ELSE /\ loading' = TRUE
            /\ clientError' = << >>
            /\ scanError' = FALSE
            /\ scanResult' = << >>
            /\ pollAttempts' = 0
            /\ clientPc' = "posting"
    /\ UNCHANGED <<state, requestVars, workerVars, gatewayVars, retentionVars>>

\* The POST is answered: a refusal is thrown; otherwise pollStatus() is
\* called for the first time, counts the poll and sends the status request.
PostAnswered(ans) ==
    /\ clientPc = "posting"
    /\ IF ans.code \notin 200..299
       THEN /\ Thrown(<< ans.body.error >>)
            /\ clientPc' = "ended"
            /\ UNCHANGED <<scanResult, pollAttempts>>
       ELSE /\ pollAttempts' = pollAttempts + 1
            /\ clientPc' = "polling"
            /\ UNCHANGED <<loading, scanResult, clientError, scanError>>
    /\ UNCHANGED <<state, requestVars, workerVars, gatewayVars, retentionVars>>

\* The status request of a poll is answered.
PollAnswered(ans) ==
    /\ clientPc = "polling"
    /\ IF ans.code # 200
       THEN /\ Thrown(<< ans.body.error >>)
            /\ clientPc' = "ended"
            /\ UNCHANGED scanResult
       ELSE IF ans.body.status = "completed"
       THEN /\ scanResult' = ans.body.result
            /\ clientError' = IF ans.body.result[1].violations = << >>
                              THEN << NoViolationsMessage >> ELSE clientError
            /\ Returned
            /\ clientPc' = "ended"
            /\ UNCHANGED scanError
       ELSE IF ans.body.status = "failed"
       THEN /\ Thrown(ans.body.error)
            /\ clientPc' = "ended"
            /\ UNCHANGED scanResult
       ELSE \* setTimeout(pollStatus, pollInterval)
            /\ Returned
            /\ clientPc' = "scheduled"
            /\ UNCHANGED <<scanResult, clientError, scanError>>
    /\ UNCHANGED <<pollAttempts, state, requestVars, workerVars, gatewayVars, retentionVars>>

\* The timer of setTimeout fires and calls pollStatus(): after 60 polls it
\* throws, otherwise it counts the poll and sends the next status request.
PollTimerFires ==
    /\ clientPc = "scheduled"
    /\ IF pollAttempts >= MaxPolls
       THEN /\ Thrown(PollTimedOutMessage)
            /\ clientPc' = "ended"
            /\ UNCHANGED pollAttempts
       ELSE /\ pollAttempts' = pollAttempts + 1
            /\ clientPc' = "polling"
            /\ UNCHANGED <<loading, clientError, scanError>>
    /\ UNCHANGED <<scanResult, state, requestVars, workerVars, gatewayVars, retentionVars>>

ClientNext ==
    \/ \E u \in TypedUrls : scan(u)
    \/ \E ans \in PostAnswers : PostAnswered(ans)
    \/ \E ans \in PollAnswers : PollAnswered(ans)
    \/ PollTimerFires

ClientSpec == Init /\ [][ClientNext]_vars

\* ===================================================================== claims
\* C1: under fair scheduling of the worker, every job accepted by submit
\* eventually reaches a terminal state, and a job that is Completed or Failed
\* never changes to another state (it is never seen both Completed and
\* Failed).  Checked under FairSpec.
C1_EventuallyOneTerminalState ==
    /\ \A j \in JobIds : (state[j] # "none") ~> (state[j] \in Terminal)
    /\ [][\A j \in JobIds : state[j] \in Terminal => state'[j] = state[j]]_vars

\* A job that overran its 120 s ceiling once, was retried and completed.
C1_Witness ==
    \E j \in JobIds : state[j] = "completed" /\ attemptsStarted[j] > 1 /\ overruns > 0

\* C2: the progress returned by successive status() calls for a job is
\* non-decreasing until the job is terminal, over all attempts of the job,
\* and the worker never records a progress lower than one already recorded.
C2_ProgressNeverDecreases ==
    [][\A j \in JobIds :
          (state[j] \in NonTerminal /\ state'[j] \in NonTerminal)
              => /\ statusHandler(j)'.body.progress >= statusHandler(j).body.progress
                 /\ progress'[j] >= progress[j]]_vars

\* C3: once a job is Completed or Failed, no later step changes its state,
\* progress, result or failureReason.
C3_TerminalJobImmutable ==
    [][\A j \in JobIds :
          state[j] \in Terminal
              => <<state[j], progress[j], returnvalue[j], failedReason[j]>>'
                   = <<state[j], progress[j], returnvalue[j], failedReason[j]>>]_vars

Detecting(j, a) == pc[j][a] \in {"p60", "detect"}

\* C5: whenever no detection step is under way (every job that installed its
\* window has ended its detection step, by success or by failure), the
\* process-wide window and document hold their initial values.
C5_GlobalsRestored ==
    (\A j \in JobIds, a \in Attempts : ~Detecting(j, a))
        => (globalWindow = OrigGlobal /\ globalDocument = OrigGlobal)

\* C6: from the moment a job installs its window and document as the global
\* context until its detector run ends, the global context is that job's.
C6_OwnEnvironment ==
    \A j \in JobIds, a \in Attempts :
        Detecting(j, a) => (globalWindow = DomOf(j, a) /\ globalDocument = DomOf(j, a))

\* C7: a job becomes Failed only when its third attempt has failed, with the
\* error its last attempt threw as failure reason, and no job is leased a
\* fourth time.
C7_FailedAfterThreeAttempts ==
    \A j \in JobIds :
        /\ attemptsStarted[j] <= 3
        /\ state[j] = "failed"
              => /\ attemptsStarted[j] = 3
                 /\ attemptsMade[j] = 3
                 /\ failedReason[j] # NoReason
                 /\ failedReason[j] = thrown[j]
        /\ (state[j] = "delayed" => attemptsMade[j] < 3)

\* A job whose three attempts all threw.
C7_Witness ==
    \E j \in JobIds : state[j] = "failed" /\ attemptsStarted[j] = 3 /\ returnvalue[j] = << >>

\* C8: a job becomes Completed only by the result its latest attempt returns,
\* it then stays Completed with that result, and a job completed by its
\* third attempt has exactly 3 recorded leases.
C8_ThirdAttemptCompletes ==
    [][\A j \in JobIds :
          /\ (state[j] # "completed" /\ state'[j] = "completed")
                => /\ state[j] = "active"
                   /\ pc[j][attemptsStarted[j]] = "p100"
                   /\ returnvalue'[j] =
                        << ScanResult(formattedViolations[j][attemptsStarted[j]],
                                      aiFixes[j][attemptsStarted[j]]) >>
                   /\ attemptsMade'[j] = attemptsStarted[j]
          /\ state[j] = "completed"
                => /\ state'[j] = "completed"
                   /\ returnvalue'[j] = returnvalue[j]
                   /\ attemptsStarted'[j] = attemptsStarted[j]
          /\ (state'[j] = "completed" /\ attemptsMade'[j] = 3)
                => attemptsStarted'[j] = 3]_vars

\* A job whose first two attempts failed and whose third completed.
C8_Witness ==
    \E j \in JobIds :
        state[j] = "completed" /\ attemptsMade[j] = 3 /\ failedReason[j] # NoReason

\* The suggester outcomes that are failures of the fix-suggestion step.
SuggesterFailures == {"throws", "quota", "loadFails"}

\* C9: a failure of the fix-suggestion step does not fail or retry the job:
\* the step leaves the job's queue record alone and puts a non-empty
\* placeholder in aiFixes, and the attempt, when it returns, completes the
\* job with that placeholder as result.aiFixes.
C9_SuggesterFailureNotFatal ==
    [][\A j \in JobIds, a \in Attempts :
          /\ (pc[j][a] = "suggest" /\ pc'[j][a] # "suggest"
                /\ suggester'[j][a] \in SuggesterFailures)
                => /\ pc'[j][a] = "p100"
                   /\ aiFixes'[j][a] \in Placeholders
                   /\ Len(aiFixes'[j][a]) = 1 /\ aiFixes'[j][a][1] # ""
                   /\ <<state[j], attemptsStarted[j], attemptsMade[j], failedReason[j]>>'
                        = <<state[j], attemptsStarted[j], attemptsMade[j], failedReason[j]>>
          /\ (pc[j][a] = "p100" /\ pc'[j][a] # "p100"
                /\ suggester[j][a] \in SuggesterFailures /\ race[j][a] = "pending")
                => /\ state'[j] = "completed"
                   /\ returnvalue'[j][1].aiFixes \in Placeholders
                   /\ returnvalue'[j][1].aiFixes = aiFixes[j][a]
                   /\ failedReason'[j] = failedReason[j]]_vars

\* A job completed with a placeholder in place of the fixes.
C9_Witness ==
    \E j \in JobIds :
        state[j] = "completed" /\ returnvalue[j][1].aiFixes \in Placeholders

\* The two timeout reasons, as the claim words them.
WholeJobTimeoutText(j) == <<"Job ", j, " timed out after ", "120000", "ms">>
FetchTimeoutText == <<"The operation was aborted due to timeout">>

\* C10: when the 120 s timer of an attempt expires while the attempt is
\* still running, the attempt fails with the whole-job timeout reason; when
\* the fetch is aborted by its 30 s timeout first, the attempt fails with the
\* fetch reason; the two reasons differ, a failure reason is the whole-job
\* one only by a timer expiry, and neither event changes the reason of an
\* attempt that has already ended.
C10_TimeoutReasonsDistinct ==
    [][\A j \in JobIds :
          /\ \A a \in Attempts :
                /\ (timer[j][a] = "armed" /\ timer'[j][a] = "fired")
                      => IF race[j][a] = "pending"
                         THEN /\ Tail(failedReason'[j]) = WholeJobTimeoutText(j)
                              /\ Tail(failedReason'[j]) # FetchTimeoutText
                              /\ state'[j] \in {"delayed", "failed"}
                         ELSE /\ failedReason'[j] = failedReason[j]
                              /\ state'[j] = state[j]
                /\ FetchDone(j, a, "timeout")
                      => IF race[j][a] = "pending"
                         THEN /\ Tail(failedReason'[j]) = FetchTimeoutText
                              /\ Tail(failedReason'[j]) # WholeJobTimeoutText(j)
                              /\ state'[j] \in {"delayed", "failed"}
                         ELSE /\ failedReason'[j] = failedReason[j]
                              /\ state'[j] = state[j]
          /\ (failedReason'[j] # failedReason[j]
                /\ Tail(failedReason'[j]) = WholeJobTimeoutText(j))
                => \E a \in Attempts : timer[j][a] = "armed" /\ timer'[j][a] = "fired"]_vars

\* The timer of an attempt expired while its fetch was still pending, and
\* the job carries the whole-job reason while that fetch is still running.
C10_Witness ==
    \E j \in JobIds, a \in Attempts :
        /\ timer[j][a] = "fired" /\ pc[j][a] = "fetch"
        /\ failedReason[j] # NoReason
        /\ Tail(failedReason[j]) = WholeJobTimeoutText(j)

\* The identity has a job in the queue that was accepted less than 60 s ago.
AcceptedWithinWindow(ip) ==
    \E j \in JobIds : state[j] # "none" /\ clientIP[j] = ip /\ now - timestamp[j] < 60

FitsState(j, r) ==
    /\ r.code = 200
    /\ r.body.status = state[j]
    /\ CASE state[j] = "completed" ->
              /\ DOMAIN r.body = {"status", "progress", "result"}
              /\ r.body.progress = 100
              /\ r.body.result = returnvalue[j]
              /\ Len(r.body.result) = 1
         [] state[j] = "failed" ->
              /\ DOMAIN r.body = {"status", "progress", "error"}
              /\ r.body.progress = 0
              /\ r.body.error = failedReason[j]
              /\ r.body.error # NoReason
         [] OTHER ->
              /\ DOMAIN r.body = {"status", "progress"}
              /\ r.body.progress = progress[j]

C19_StatusReadOnly ==
    [][(StatusRespond \/ \E j \in StatusIds : StatusRead(j))
          => <<state, progress, returnvalue, failedReason, attemptsStarted,
               attemptsMade, requestVars, slot>>'
               = <<state, progress, returnvalue, failedReason, attemptsStarted,
                   attemptsMade, requestVars, slot>>]_vars

\* A job waiting for its retry was reported as delayed.
C19_Witness ==
    /\ state["1"] = "delayed"
    /\ lookup = << >>
    /\ response.code = 200
    /\ response.body.status = "delayed"
    /\ response.body.progress = progress["1"]

\* The pipeline of attempt a of job j throws in this step.
PipelineThrows(j, a) ==
    \/ DetectThrows(j, a)
    \/ \E o \in FetchOutcomes \ {"ok"} : FetchDone(j, a, o)

\* C14: an exception thrown in one job's pipeline is caught by that job's
\* processing function and becomes a failure of that attempt of that job
\* only (reason 'Failed to scan URL: ...', retry or Failed, its slot freed);
\* the worker goes on: every other job keeps its record, its slot and the
\* position of its pipeline.
C14_ExceptionFailsOnlyItsJob ==
    [][\A j \in JobIds, a \in Attempts :
          PipelineThrows(j, a)
              => /\ race[j][a] = "pending"
                    => /\ state[j] = "active"
                       /\ state'[j] \in {"delayed", "failed"}
                       /\ Head(failedReason'[j]) = "Failed to scan URL: "
                       /\ Len(failedReason'[j]) > 1
                       /\ attemptsMade'[j] = attemptsMade[j] + 1
                       /\ \A s \in Slots : slot'[s] # j
                 /\ \A k \in JobIds \ {j} :
                       /\ <<state[k], progress[k], returnvalue[k], failedReason[k],
                            attemptsStarted[k], attemptsMade[k], pc[k], race[k]>>'
                            = <<state[k], progress[k], returnvalue[k], failedReason[k],
                                attemptsStarted[k], attemptsMade[k], pc[k], race[k]>>
                       /\ \A s \in Slots : slot[s] = k => slot'[s] = k]_vars

\* One job has failed an attempt by an exception while the other job is in
\* the middle of its detector run in its slot.
C14_Witness ==
    \E j, k \in JobIds :
        /\ j # k
        /\ state[j] = "delayed" /\ thrown[j] # NoReason
        /\ state[k] = "active" /\ pc[k][1] = "detect"
        /\ \E s \in Slots : slot[s] = k

\* C16: within one worker process the number of jobs that are Active at the
\* same time never exceeds the configured concurrency (2 for the improved
\* worker, 3 for the original one), however many jobs are Waiting.
C16_ActiveWithinConcurrency ==
    /\ DOMAIN slot \in {1..2, 1..3}
    /\ Cardinality({j \in JobIds : state[j] = "active"})
          <= (IF DOMAIN slot = 1..3 THEN 3 ELSE 2)
    /\ Cardinality({j \in JobIds : state[j] = "active"})
          = Cardinality({s \in DOMAIN slot : slot[s] # NoJob})

\* The improved worker runs two jobs while two more are waiting.
C16_Witness ==
    /\ DOMAIN slot = 1..2
    /\ Cardinality({j \in JobIds : state[j] = "active"}) = 2
    /\ Cardinality({j \in JobIds : state[j] = "waiting"}) = 2

\* C18: the suggester is invoked only when the job has includeAIFixes = true
\* and detection found at least one violation; in every other case it is
\* never called and the completed result's aiFixes is null.
C18_SuggesterOnlyWhenWanted ==
    [][\A j \in JobIds :
          /\ \A a \in Attempts :
                \/ /\ pc'[j][a] = "suggest" => pc[j][a] = "suggest"
                   /\ suggester'[j][a] \in {suggester[j][a], "notCalled"}
                \/ /\ includeAIFixes[j] = TRUE
                   /\ Len(formattedViolations[j][a]) >= 1
          /\ (state[j] = "active" /\ state'[j] = "completed")
                => \/ /\ includeAIFixes[j] = TRUE
                      /\ Len(returnvalue'[j][1].violations) >= 1
                   \/ returnvalue'[j][1].aiFixes = Null]_vars

\* A job that asked for fixes has completed with no violation and no fixes.
C18_Witness ==
    \E j \in JobIds :
        /\ state[j] = "completed"
        /\ includeAIFixes[j] = TRUE
        /\ returnvalue[j][1].violations = << >>
        /\ returnvalue[j][1].aiFixes = Null

\* The number of violations of vs whose impact is one of the labels.
NumberWithImpact(vs, labels) == Cardinality({i \in DOMAIN vs : vs[i].impact \in labels})
NamedImpacts == {"critical", "serious", "moderate", "minor"}

\* C17: for every Completed result, summary.total is the number of
\* violations, each of summary.critical/serious/moderate/minor is the number
\* of violations with exactly that impact, and the four add up to at most
\* the total, with equality exactly when no violation has another impact.
C17_SummaryCounts ==
    \A j \in JobIds :
        state[j] = "completed" =>
            LET r == returnvalue[j][1]
                vs == r.violations
                sum == r.summary.critical + r.summary.serious
                         + r.summary.moderate + r.summary.minor
            IN  /\ r.summary.total = Len(vs)
                /\ r.summary.critical = NumberWithImpact(vs, {"critical"})
                /\ r.summary.serious = NumberWithImpact(vs, {"serious"})
                /\ r.summary.moderate = NumberWithImpact(vs, {"moderate"})
                /\ r.summary.minor = NumberWithImpact(vs, {"minor"})
                /\ sum <= r.summary.total
                /\ (sum = r.summary.total)
                      <=> (\A i \in DOMAIN vs : vs[i].impact \in NamedImpacts)

\* A completed result with a violation of unknown impact beside named ones:
\* the buckets add up to less than the total.
C17_Witness ==
    \E j \in JobIds :
        /\ state[j] = "completed"
        /\ LET r == returnvalue[j][1] IN
              /\ r.summary.total = 3
              /\ r.summary.critical = 1
              /\ r.summary.minor = 1
              /\ \E i \in DOMAIN r.violations : r.violations[i].impact = "unknown"

\* ---------------------------------------------------------------- retention
\* defaultJobOptions: removeOnComplete and removeOnFail.
KeepCompleted == 100
KeepFailed == 50

\* Sizes of the retention model: the jobs submitted, the jobs that may be
\* live (waiting, active or delayed) at once, the slow jobs (every job whose
\* id is a multiple of SlowEvery ends after the job submitted next), and the
\* patterns of failing jobs (0, the initial one: none fails; k: every job
\* whose id is a multiple of k fails).
MaxJobsAdded == 104
MaxLive == 2
SlowEvery == 7
FailPatterns == {2}

\* A plausible slip: the set is trimmed only when it exceeds the count by two.
KeepLast_OneMore(ids, n) ==
    IF Len(ids) > n + 1 THEN SubSeq(ids, Len(ids) - n, Len(ids)) ELSE ids

\* removeOnComplete / removeOnFail with a count: the queue keeps the n jobs
\* that ended last and removes the older ones of the same set.
KeepLast(ids, n) ==
    IF Len(ids) > n THEN SubSeq(ids, Len(ids) - n + 1, Len(ids)) ELSE ids

SeqRange(ids) == {ids[i] : i \in DOMAIN ids}

\* The job ends failed (its attempts used up) rather than completed.
Fails(id) == failEvery # 0 /\ id % failEvery = 0

\* Which jobs are going to fail is fixed before the first submission.
ChooseFailures(p) ==
    /\ jobCounter = 0
    /\ failEvery = 0
    /\ failEvery' = p
    /\ UNCHANGED <<state, workerVars, requestVars, gatewayVars, jobCounter,
                   liveIds, completedIds, failedIds, clientVars>>

\* scanQueue.add: the queue gives the job the next id and keeps it.
RetainAdd ==
    /\ jobCounter < MaxJobsAdded
    /\ Cardinality(liveIds) < MaxLive
    /\ jobCounter' = jobCounter + 1
    /\ liveIds' = liveIds \cup {jobCounter + 1}
    /\ UNCHANGED <<state, workerVars, requestVars, gatewayVars, completedIds,
                   failedIds, failEvery, clientVars>>

\* The job takes longer than the job submitted after it.
Slow(id) == id % SlowEvery = 0

\* The job is the next one to end: jobs end in the order of their
\* submission, except that a slow job ends after the job submitted next (if
\* there is going to be one).
MayEnd(id) ==
    LET oldest == CHOOSE k \in liveIds : \A m \in liveIds : k <= m IN
    IF Slow(oldest) /\ oldest < MaxJobsAdded /\ (oldest + 1 > jobCounter \/ oldest + 1 \in liveIds)
    THEN id = oldest + 1
    ELSE id = oldest

\* The job ends: it moves to the completed or to the failed set, and that
\* set is trimmed to its count.
RetainFinish(id) ==
    /\ id \in liveIds
    /\ MayEnd(id)
    /\ liveIds' = liveIds \ {id}
    /\ IF Fails(id)
       THEN /\ failedIds' = KeepLast(Append(failedIds, id), KeepFailed)
            /\ UNCHANGED completedIds
       ELSE /\ completedIds' = KeepLast(Append(completedIds, id), KeepCompleted)
            /\ UNCHANGED failedIds
    /\ UNCHANGED <<state, workerVars, requestVars, gatewayVars, jobCounter, failEvery,
                   clientVars>>

\* What getJob returns for a job id of the retention model.
retainedJob(id) ==
    IF id \in liveIds
    THEN << [id |-> id, status |-> "waiting", progress |-> 0,
             result |-> << >>, error |-> NoReason] >>
    ELSE IF id \in SeqRange(completedIds)
    THEN << [id |-> id, status |-> "completed", progress |-> 100,
             result |-> << >>, error |-> NoReason] >>
    ELSE IF id \in SeqRange(failedIds)
    THEN << [id |-> id, status |-> "failed", progress |-> 0,
             result |-> << >>, error |-> <<"Failed to scan URL: ">>] >>
    ELSE << >>

\* The job ids the status requests of the retention model name: the jobs
\* that have not ended yet.
StatusProbes == liveIds

\* A status request for a job id the queue gave out.
RetainStatus(id) ==
    /\ id \in 1..jobCounter
    /\ response' = statusResponse(retainedJob(id))
    /\ UNCHANGED <<state, workerVars, requestVars, now, lastAccepted, lookup,
                   sideVars>>

RetainNext ==
    \/ \E p \in FailPatterns : ChooseFailures(p)
    \/ RetainAdd
    \/ \E id \in liveIds : RetainFinish(id)
    \/ \E id \in StatusProbes : RetainStatus(id)

RetainSpec == Init /\ [][RetainNext]_vars

C22_StoreFailureAnswered500 ==
    [][(StatusStateReadFails \/ \E j \in StatusIds : StatusReadFails(j))
          => /\ response'.code = 500
             /\ response'.body = [error |-> "Failed to check job status",
                                  details |-> <<"Redis connection failed">>]]_vars

\* C23: the status endpoint answers 404 'Job not found' for a job id the
\* queue does not hold, 400 'Job ID is required' when jobId is missing or not
\* a single string, and 405 for any method other than GET; in none of these
\* cases does it return job data or keep a job object.
C23_StatusRequestErrors ==
    [][\A m \in Methods, q \in JobIdQueries :
          StatusRequest(m, q)
              => /\ m # "GET"
                      => response' = [code |-> 405, body |-> [error |-> "Method not allowed"]]
                 /\ (m = "GET" /\ (q = << >> \/ Len(q) > 1 \/ q = <<"">>))
                      => response' = [code |-> 400, body |-> [error |-> "Job ID is required"]]
                 /\ (m = "GET" /\ Len(q) = 1 /\ q # <<"">> /\ state[q[1]] = "none")
                      => response' = [code |-> 404, body |-> [error |-> "Job not found"]]
                 /\ (m # "GET" \/ Len(q) # 1 \/ q = <<"">> \/ state[q[1]] = "none")
                      => /\ lookup' = << >>
                         /\ <<state, progress, returnvalue, failedReason>>'
                               = <<state, progress, returnvalue, failedReason>>]_vars

\* A repeated jobId parameter was answered 400 while the queue holds the job
\* it names first.
C23_Witness ==
    /\ response = JobIdRequired
    /\ state["1"] = "active"
    /\ lookup = << >>

\* C26: the state and the payload of one status response come from a
\* consistent snapshot of the job: a response that says completed carries
\* the job's stored result (never undefined) and one that says failed carries
\* the job's stored failure reason, also when the worker completes or fails
\* the job between the job read and the state read of getJob.
C26_ConsistentSnapshot ==
    [][StatusRespond
          => /\ response'.body.status = "completed"
                  => /\ response'.body.result # << >>
                     /\ response'.body.result = returnvalue[lookup[1].id]
             /\ response'.body.status = "failed"
                  => /\ response'.body.error # NoReason
                     /\ response'.body.error = failedReason[lookup[1].id]]_vars

\* The pipeline of the attempt has not ended although the attempt has: the
\* race was settled by the timer.
Orphaned(j, a) == race[j][a] = "settled" /\ pc[j][a] \notin {"idle", "done"}

\* The pipeline of the attempt is executing or about to execute a step.
Executing(j, a) == pc[j][a] \notin {"idle", "done", "hung"}

\* C25: when the 120 s whole-job timeout fires for an attempt, that attempt's
\* pipeline stops: after the attempt has been reported as failed it takes no
\* further step (progress update, suggester call, write to the global
\* window/document), so at most one pipeline is executing for a job.
C25_TimedOutPipelineStops ==
    /\ [][\A j \in JobIds, a \in Attempts :
             Orphaned(j, a)
                 => /\ pc'[j][a] \in {pc[j][a], "hung"}
                    /\ suggester'[j][a] = suggester[j][a]]_vars
    /\ [](\A j \in JobIds : Cardinality({a \in Attempts : Executing(j, a)}) <= 1)

\* The positions of a pipeline at which a progress write is in flight, with
\* the value written, and what may follow each position of a pipeline.
Reporting == [p10 |-> 10, p20 |-> 20, p40 |-> 40, p60 |-> 60, p80 |-> 80, p100 |-> 100]
FollowedBy ==
    [idle |-> {"p10"}, p10 |-> {"p20"}, p20 |-> {"fetch"}, fetch |-> {"p40", "done"},
     p40 |-> {"p60"}, p60 |-> {"detect"}, detect |-> {"p80", "done", "hung"},
     p80 |-> {"suggest", "p100"}, suggest |-> {"p100"}, p100 |-> {"done"},
     done |-> {}, hung |-> {}]

\* C27: within a single attempt the worker reports progress 10, 20, 40, 60,
\* 80, 100 in that order and each once: a pipeline only moves forward through
\* its steps, each progress write carries the value of its checkpoint, no
\* other write of progress occurs, and the result is returned only by the
\* step that reported 100; an attempt that fails leaves after the fetch or
\* the detector run, having reported a prefix.
C27_ProgressSequence ==
    [][\A j \in JobIds :
          /\ \A a \in Attempts :
                pc'[j][a] # pc[j][a]
                    => /\ pc'[j][a] \in FollowedBy[pc[j][a]]
                       /\ IF pc[j][a] \in DOMAIN Reporting
                          THEN progress'[j] = Reporting[pc[j][a]]
                          ELSE progress'[j] = progress[j]
          /\ progress'[j] # progress[j]
                => \E a \in Attempts :
                      pc[j][a] \in DOMAIN Reporting /\ pc'[j][a] # pc[j][a]
          /\ (state[j] # "completed" /\ state'[j] = "completed")
                => /\ progress'[j] = 100
                   /\ \E a \in Attempts : pc[j][a] = "p100" /\ pc'[j][a] = "done"]_vars

\* A job whose first attempt failed at the fetch, having reported 10 and 20,
\* and whose second attempt completed, having reported up to 100.
C27_Witness ==
    \E j \in JobIds :
        /\ state[j] = "completed"
        /\ attemptsStarted[j] = 2
        /\ progress[j] = 100
        /\ pc[j][1] = "done" /\ pc[j][2] = "done"
        /\ overruns = 0

\* The detector run of the attempt has completed (its results were formatted).
DetectorRunCompleted(j, a) == pc[j][a] \in {"p80", "suggest", "p100"}

\* The fix-suggestion step of the attempt has been attempted, or skipped
\* because no fixes are wanted.
SuggestionAttempted(j, a) == suggester[j][a] # "notCalled" \/ ~WantsFixes(j, a)

\* C28: each progress checkpoint is reported only once its stage has been
\* reached: the step that reports 60 is taken only after the detector run
\* has completed, and the step that reports 80 only after the fix-suggestion
\* step has been attempted (or skipped).
C28_CheckpointAfterStage ==
    [][\A j \in JobIds, a \in Attempts :
          /\ (pc[j][a] = "p60" /\ progress'[j] = 60 /\ pc'[j][a] # "p60")
                => DetectorRunCompleted(j, a)
          /\ (pc[j][a] = "p80" /\ progress'[j] = 80 /\ pc'[j][a] # "p80")
                => SuggestionAttempted(j, a)]_vars

\* C28 as amended: each checkpoint is reported when its stage is about to
\* begin.  60 is reported before the detector run starts; the completion of
\* the detector run reports nothing; 80 is reported after the detector run
\* has completed and before the fix-suggestion step is attempted or skipped;
\* 100 is reported after that step, by the step that then assembles and
\* returns the result.
C28_CheckpointBeforeStage ==
    [][\A j \in JobIds, a \in Attempts :
          /\ (pc[j][a] = "p60" /\ pc'[j][a] # "p60")
                => /\ progress'[j] = 60
                   /\ pc'[j][a] = "detect"
                   /\ ~DetectorRunCompleted(j, a)
          /\ (pc[j][a] = "detect" /\ pc'[j][a] = "p80")
                => progress'[j] = progress[j]
          /\ (pc[j][a] = "p80" /\ pc'[j][a] # "p80")
                => /\ progress'[j] = 80
                   /\ suggester[j][a] = "notCalled"
                   /\ pc'[j][a] = IF includeAIFixes[j] /\ formattedViolations[j][a] # << >>
                                  THEN "suggest" ELSE "p100"
          /\ (pc[j][a] = "p100" /\ pc'[j][a] # "p100")
                => /\ progress'[j] = 100
                   /\ SuggestionAttempted(j, a)
                   /\ returnvalue'[j] # returnvalue[j]
                         => state[j] = "active" /\ state'[j] = "completed"]_vars

\* The job shows 60 although its detector run never completes.
C28_Witness ==
    \E j \in JobIds : pc[j][1] = "hung" /\ progress[j] = 60 /\ state[j] = "active"

\* C29: the only state changes a job ever undergoes are Waiting -> Active,
\* Active -> Completed, Active -> Failed (only after retries are exhausted)
\* and Active -> Waiting; no other transition occurs for any job.
C29_OnlyFourTransitions ==
    [][\A j \in JobIds :
          (state[j] # "none" /\ state'[j] # state[j])
              => /\ <<state[j], state'[j]>> \in
                       {<<"waiting", "active">>, <<"active", "completed">>,
                        <<"active", "failed">>, <<"active", "waiting">>}
                 /\ state'[j] = "failed" => attemptsMade'[j] = 3]_vars

\* C29 as amended: the state changes of a job are Waiting -> Active,
\* Active -> Completed, Active -> Failed (only when the third attempt has
\* failed), Active -> Waiting, and for a retry Active -> Delayed (an attempt
\* failed and retries are left) followed by Delayed -> Waiting (the backoff
\* has elapsed); no other transition occurs.
C29_TransitionsWithBackoff ==
    [][\A j \in JobIds :
          (state[j] # "none" /\ state'[j] # state[j])
              => /\ <<state[j], state'[j]>> \in
                       {<<"waiting", "active">>, <<"active", "completed">>,
                        <<"active", "failed">>, <<"active", "waiting">>,
                        <<"active", "delayed">>, <<"delayed", "waiting">>}
                 /\ state'[j] = "failed" => attemptsMade'[j] = 3
                 /\ state'[j] = "delayed" => attemptsMade'[j] \in {1, 2}]_vars

\* A job whose first attempt failed has passed through Delayed and waits for
\* its second attempt.
C29_Witness ==
    \E j \in JobIds :
        state[j] = "waiting" /\ attemptsMade[j] = 1 /\ failedReason[j] # NoReason

\* C30: a job created by a default scan submission starts in Waiting and is
\* never reported in the Delayed state by status() at any point of its life.
C30_NeverReportedDelayed ==
    [][/\ \A j \in JobIds : (state[j] = "none" /\ state'[j] # "none") => state'[j] = "waiting"
       /\ StatusRespond => response'.body.status # "delayed"]_vars

\* C30 as amended: a job created by a default scan submission starts in
\* Waiting, and status() reports it as Delayed only between a failed attempt
\* and its retry: never before its first attempt, never after its last.
C30_DelayedOnlyBetweenAttempts ==
    [][/\ \A j \in JobIds : (state[j] = "none" /\ state'[j] # "none") => state'[j] = "waiting"
       /\ (StatusRespond /\ response'.body.status = "delayed")
             => /\ attemptsMade[lookup[1].id] \in {1, 2}
                /\ attemptsStarted[lookup[1].id] = attemptsMade[lookup[1].id]
                /\ failedReason[lookup[1].id] # NoReason]_vars

\* status() has reported as delayed a job whose second attempt failed.
C30_Witness ==
    /\ response.code = 200
    /\ response.body.status = "delayed"
    /\ attemptsMade["1"] = 2
    /\ state["1"] = "delayed"

\* C31: every progress value returned by status() is an integer in 0..100,
\* and it is 0 whenever the reported state is waiting, whatever happened to
\* the job before it became waiting.
C31_ProgressZeroWhenWaiting ==
    (response.code = 200 /\ "progress" \in DOMAIN response.body)
        => /\ response.body.progress \in 0..100
           /\ response.body.status = "waiting" => response.body.progress = 0

\* The message contains the piece s.
Contains(msg, s) == \E i \in DOMAIN msg : msg[i] = s

\* C32: a Failed job's failureReason is non-empty and is the message of its
\* last failed attempt, of the form 'Failed to scan URL: <cause>', the cause
\* of a non-2xx fetch containing the HTTP status code; and a status response
\* for a Failed job carries this reason unchanged in its error field.
C32_FailureReasonExposed ==
    [][/\ \A j \in JobIds :
             /\ state'[j] = "failed"
                   => /\ failedReason'[j] # NoReason
                      /\ Head(failedReason'[j]) = "Failed to scan URL: "
                      /\ Len(failedReason'[j]) > 1
                      /\ failedReason'[j] = thrown'[j]
             /\ \A a \in Attempts :
                   (FetchDone(j, a, "http404") /\ race[j][a] = "pending"
                      /\ state'[j] = "failed")
                       => /\ a = 3
                          /\ Contains(failedReason'[j], "404")
       /\ (StatusRespond /\ state[lookup[1].id] = "failed")
             => /\ response'.body.status = "failed"
                /\ response'.body.error = failedReason[lookup[1].id]]_vars

\* C33: after the k-th failed attempt of a job (k = 1, 2) the job is not
\* offered to a worker again before 2000 ms x 2^(k-1) have elapsed: the retry
\* is delayed until 2000 ms after the first failure and 4000 ms after the
\* second, the job stays delayed and keeps that time until the clock has
\* reached it, and it is leased again only after that.
C33_ExponentialBackoff ==
    [][/\ now' >= now
       /\ \A j \in JobIds :
             /\ (state[j] = "active" /\ state'[j] = "delayed")
                   => /\ attemptsMade'[j] \in {1, 2}
                      /\ attemptsMade'[j] = 1 => delayedUntil'[j] = 1000 * now + 2000
                      /\ attemptsMade'[j] = 2 => delayedUntil'[j] = 1000 * now + 4000
             /\ state[j] = "delayed"
                   => /\ delayedUntil'[j] = delayedUntil[j]
                      /\ state'[j] \in {"delayed", "waiting"}
                      /\ state'[j] = "waiting" => 1000 * now >= delayedUntil[j]
             /\ (state'[j] = "active" /\ state[j] # "active" /\ attemptsMade[j] >= 1)
                   => /\ state[j] = "waiting"
                      /\ delayedUntil'[j] = delayedUntil[j]
                      /\ 1000 * now >= delayedUntil[j]]_vars

\* The third attempt of a job has been started exactly 4000 ms after its
\* second attempt failed.
C33_Witness ==
    \E j \in JobIds :
        /\ state[j] = "active"
        /\ attemptsStarted[j] = 3
        /\ attemptsMade[j] = 2
        /\ 1000 * now = delayedUntil[j]
        /\ now >= 6

C36_NormalizationKeepsOrder ==
    [][\A raw \in RawLists :
          DetectDone("1", 1, raw)
              => LET vs == formattedViolations'["1"][1] IN
                 /\ Len(vs) = Len(raw)
                 /\ \A i \in 1..Len(raw) :
                       /\ vs[i].id = raw[i].id
                       /\ raw[i].impact # "" => vs[i].impact = raw[i].impact
                       /\ raw[i].impact = "" => vs[i].impact = "unknown"
                       /\ vs[i].nodes = Cardinality(DOMAIN raw[i].nodes)
                       /\ raw[i].nodes = << >> => vs[i].nodes = 0]_vars

\* A completed result whose first violation had no impact and no node and
\* whose second has an impact and two nodes.
C36_Witness ==
    /\ state["1"] = "completed"
    /\ LET vs == returnvalue["1"][1].violations IN
          /\ Len(vs) = 2
          /\ vs[1] = [id |-> "image-alt", impact |-> "unknown", nodes |-> 0]
          /\ vs[2] = [id |-> "color-contrast", impact |-> "serious", nodes |-> 2]

C38_LateTimerHasNoEffect ==
    [][\A j \in JobIds, a \in Attempts :
          (timer[j][a] = "armed" /\ timer'[j][a] = "fired" /\ race[j][a] = "settled")
              => /\ <<state, returnvalue, failedReason, progress, attemptsStarted,
                      attemptsMade, thrown>>'
                      = <<state, returnvalue, failedReason, progress, attemptsStarted,
                          attemptsMade, thrown>>
                 /\ <<race, pc, slot>>' = <<race, pc, slot>>
                 /\ workerUp /\ workerUp']_vars

\* The timer of a first attempt that failed at the fetch has fired while the
\* second attempt of the job is running; no attempt outlived its timer.
C38_Witness ==
    \E j \in JobIds :
        /\ timer[j][1] = "fired"
        /\ pc[j][1] = "done"
        /\ race[j][2] = "pending"
        /\ pc[j][2] = "detect"
        /\ state[j] = "active"
        /\ overruns = 0
        /\ workerUp

\* C39: in the browser client's scan(), the loading flag stays set until the
\* polling has seen a terminal status or made 60 polls, and a terminal outcome
\* seen on any poll, the first or a later one, is reflected in the client's
\* state: a completed job's result is stored as the scan result, a failed
\* job's error and the 60-poll timeout set the error state and its message.
C39_LoadingUntilTerminal ==
    [][/\ clientPc' \in {"posting", "polling", "scheduled"} => loading'
       /\ \A ans \in PollAnswers :
            PollAnswered(ans) /\ ans.code = 200 =>
              /\ ans.body.status = "completed" => scanResult' = ans.body.result
              /\ ans.body.status = "failed" =>
                   scanError' /\ clientError' = << ans.body.error >>
       /\ PollTimerFires /\ pollAttempts >= MaxPolls =>
            scanError' /\ clientError' = << PollTimedOutMessage >>]_vars

\* C40: the two status helpers agree: whatever the job and the state read
\* from the queue, getJobStatus returns the status and the progress that the
\* status endpoint answers from what getJob returned.
C40_StatusHelpersAgree ==
    [][/\ StatusRespond =>
            /\ response'.body.status = getJobStatus(lookup, state[lookup[1].id]).status
            /\ response'.body.progress = getJobStatus(lookup, state[lookup[1].id]).progress
       /\ \A bullState \in HeldStateNames :
            StatusRespondHeld(bullState) =>
              /\ response'.body.status = getJobStatus(lookup, bullState).status
              /\ response'.body.progress = getJobStatus(lookup, bullState).progress]_vars

====
